---- MODULE Spec2Model ----
(***************************************************************************)
(* Model of the agent execution loop (PLCAgent.execute), the verification  *)
(* gate (PLCCompilerVerifier, SafetyVerifier, LLM judge) and the fleet     *)
(* orchestrator (FleetManager.run_migration / _run_agent_on_site).         *)
(*                                                                         *)
(* Code texts are sequences of tokens; the verifiers are operators that    *)
(* compute on those tokens the way the source computes on the strings.     *)
(***************************************************************************)
EXTENDS Integers, Sequences, FiniteSets, TLC

(* ------------------------------ bounds --------------------------------- *)

\* largest number of steps of a plan the model explores
MaxPlanSteps == 2

\* largest configured turn budget (AgentConfig.max_turns >= 1) explored
MaxTurnsBound == 2

(* --------------------------- program data ------------------------------ *)

None == "None"

\* the fleet, in configuration order (FleetManager.sites)
Fleet == <<"s1", "s2">>

\* the sites of the fleet
Sites == {Fleet[i] : i \in 1..Len(Fleet)}

\* SiteConfig.plc_type of every site of the fleet
PlcTypeOf(site) == IF site = "s1" THEN "Siemens S7-1500" ELSE "Beckhoff TwinCAT"

\* files a plan step can target
Files == {"main.st", "certified_safety_logic.st"}

\* SafetyVerifier._check_forbidden_modifications: forbidden_files
forbidden_files == {"certified_safety_logic.st", "sil3_rated_module.st"}

\* SafetyVerifier._check_safety_interlocks: dangerous patterns (as tokens)
dangerous == {"FORCE", "DISABLE_SAFETY", "BYPASS_GUARD"}

\* SafetyVerifier._check_emergency_stops: estop_patterns (as tokens)
estop_patterns == {"E_STOP", "EMERGENCY_STOP", "EMG_STOP", "SAFETY_STOP"}

\* texts the generation capability can answer with (after _extract_code)
CodeTexts == { <<"a">>, <<"FORCE", "a">>, <<" ">>, <<"(", "a">> }

\* PLCAgent._read_file: the current content of a file
ReadFile(file) == <<"b">>

(* ----------------------------- helpers --------------------------------- *)

\* str.count(tok)
Count(code, tok) == Cardinality({i \in 1..Len(code) : code[i] = tok})

\* the whitespace tokens
Whitespace == {" ", "\n"}

\* str.strip() is empty: only whitespace tokens
IsBlank(code) == \A i \in 1..Len(code) : code[i] \in Whitespace

RECURSIVE StripComments(_)
\* re.sub(r'//.*|/\*.*?\*/', '', code, flags=re.DOTALL): scanning from the
\* left, "//" and everything after it is removed (with DOTALL the dot also
\* matches line ends), "/*" is removed up to the first "*/" after it, and a
\* "/*" that is never closed stays
StripComments(code) ==
    IF code = <<>> THEN <<>>
    ELSE IF Head(code) = "//" THEN <<>>
    ELSE IF Head(code) = "/*" /\ \E j \in 2..Len(code) : code[j] = "*/"
    THEN LET close == CHOOSE j \in 2..Len(code) :
                          code[j] = "*/" /\ \A k \in 2..(j - 1) : code[k] # "*/"
         IN  StripComments(SubSeq(code, close + 1, Len(code)))
    ELSE << Head(code) >> \o StripComments(Tail(code))

RECURSIVE Strip(_)
\* str.strip(): leading and trailing whitespace removed
Strip(code) ==
    IF code = <<>> THEN <<>>
    ELSE IF Head(code) \in Whitespace THEN Strip(Tail(code))
    ELSE IF code[Len(code)] \in Whitespace THEN Strip(SubSeq(code, 1, Len(code) - 1))
    ELSE code

\* all(...)
All(bools) == \A i \in 1..Len(bools) : bools[i]

\* PLCAgent._quick_verify
QuickVerify(change) ==
    IF IsBlank(change.new_code) THEN FALSE
    ELSE IF Count(change.new_code, "(") # Count(change.new_code, ")") THEN FALSE
    ELSE TRUE

(* ------------------------- verification gate --------------------------- *)

\* PLCCompilerVerifier.verify: routes by platform family; an unsupported
\* family fails, the simulated Siemens/Rockwell compilers succeed
CompilerVerify(changes, site) ==
    IF PlcTypeOf(site) \in {"Siemens S7-1500", "Siemens S7-1200", "Siemens S7-300"}
    THEN [kind |-> "compile", passed |-> TRUE, critical |-> FALSE]
    ELSE IF PlcTypeOf(site) \in {"Allen-Bradley ControlLogix", "Allen-Bradley CompactLogix"}
    THEN [kind |-> "compile", passed |-> TRUE, critical |-> FALSE]
    ELSE [kind |-> "compile", passed |-> FALSE, critical |-> FALSE]

\* SafetyVerifier._is_comment_only_change
IsCommentOnlyChange(change) ==
    Strip(StripComments(change.old_code)) = Strip(StripComments(change.new_code))

\* SafetyVerifier._check_emergency_stops
CheckEmergencyStops(changes) ==
    ~ \E i \in 1..Len(changes) :
        /\ \E j \in 1..Len(changes[i].new_code) : changes[i].new_code[j] \in estop_patterns
        /\ ~ IsCommentOnlyChange(changes[i])

\* SafetyVerifier._check_safety_interlocks
CheckSafetyInterlocks(changes) ==
    ~ \E i \in 1..Len(changes) :
        \E j \in 1..Len(changes[i].new_code) : changes[i].new_code[j] \in dangerous

\* SafetyVerifier._check_guard_circuits
CheckGuardCircuits(changes) == TRUE

\* SafetyVerifier._check_forbidden_modifications
CheckForbiddenModifications(changes) ==
    ~ \E i \in 1..Len(changes) : changes[i].file_path \in forbidden_files

\* SafetyVerifier._verify_sil_compliance
VerifySilCompliance(changes, site) == TRUE

\* SafetyVerifier.verify, lines 46-52: the results of the five sub-checks
\* (the 'details' of the verdict)
SafetyChecks(changes, site) ==
    << CheckEmergencyStops(changes),
       CheckSafetyInterlocks(changes),
       CheckGuardCircuits(changes),
       CheckForbiddenModifications(changes),
       VerifySilCompliance(changes, site) >>

\* SafetyVerifier.verify: all sub-checks must pass; a failure is critical
SafetyVerify(changes, site) ==
    LET results == SafetyChecks(changes, site)
    IN  IF All(results)
        THEN [kind |-> "safety", passed |-> TRUE, critical |-> FALSE]
        ELSE [kind |-> "safety", passed |-> FALSE, critical |-> TRUE]

\* configured confidence threshold of the judge, in tenths (default 0.7)
confidence_threshold == 7

\* FleetManager._run_llm_judge: no changes pass; a failing generation call
\* passes (fallback); otherwise approved and confidence >= threshold
RunLlmJudge(changes, errored, approved, confidence) ==
    IF changes = <<>> THEN [kind |-> "judge", passed |-> TRUE, critical |-> FALSE]
    ELSE IF errored THEN [kind |-> "judge", passed |-> TRUE, critical |-> FALSE]
    ELSE [kind |-> "judge", passed |-> (approved /\ confidence >= confidence_threshold),
          critical |-> FALSE]

\* the aggregate computed with any() in place of all()
AllPassedAny(results) == \E i \in 1..Len(results) : results[i].passed

\* all(r.get("passed", False) for r in results)
AllPassed(results) == \A i \in 1..Len(results) : results[i].passed

(* ------------------------------- state --------------------------------- *)

VARIABLES
    dry_run,              \* run_migration(dry_run)
    max_turns,            \* AgentConfig.max_turns
    enable_quick_verify,  \* AgentConfig.enable_quick_verify
    mig_pc,               \* position of run_migration: "start", "sites", "done"
    filtered_sites,       \* run_migration: the sites selected for the migration
    site_i,               \* index into the selected sites of the site being processed
    pc,                   \* position of the current site's PLCAgent.execute
    result,               \* the agent's AgentResult (self.result)
    plan,                 \* ExecutionPlan.steps
    step_i,               \* index of the plan step the step loop is at
    turns_taken,          \* AgentContext.turns_taken
    changes,              \* PLCAgent.changes
    timer_expired,        \* timeout_seconds have passed since AgentContext.start_time
    audit,                \* the audit sink: the events written so far
    site_results,         \* the SiteMigrationResults collected by run_migration
    verifier_results,     \* _run_agent_on_site: the outcomes of the last gate run
    runs_started,         \* how often agent.execute was called for each site
    migration_result,     \* the MigrationResult returned by run_migration
    event_id,             \* run_migration: the id log_migration_started returned
    call,                 \* the call of a single function under study, and what it returned
    jobs,                 \* the job store of the API (_jobs): job id -> job
    task_pc,              \* position of the background task _run_migration_task
    response              \* what the API answered to the last request

vars == << dry_run, max_turns, enable_quick_verify, mig_pc, filtered_sites, site_i, pc, result,
           plan, step_i, turns_taken, changes, timer_expired, audit,
           site_results, verifier_results, runs_started, migration_result, event_id,
           call, jobs, task_pc, response >>

\* the API: its job store, its background task and its last answer
api_vars == << jobs, task_pc, response >>

\* what no step of a migration writes: the configuration, the record of a
\* function called on its own, and the API
config_vars == << dry_run, max_turns, enable_quick_verify, call, jobs, task_pc, response >>
agent_vars  == << pc, result, plan, step_i, turns_taken, changes, timer_expired >>
fleet_vars  == << mig_pc, filtered_sites, site_i, site_results, verifier_results, runs_started,
                  migration_result, event_id >>

\* the site the orchestrator is processing
CurrentSite == filtered_sites[site_i]

\* run_migration has not returned: there is no MigrationResult yet
NoMigrationResult == [status |-> None]

\* no function has been called on its own
NoCall == [op |-> "none"]

\* _jobs = {}: the job store holds no job
NoJobs == [j \in {} |-> None]

\* no request has been answered
NoResponse == [code |-> 0]

\* AgentResult(task_id, site_name, status=IDLE) with the field defaults
NewAgentResult ==
    [ status |-> "idle", success |-> FALSE, turns_taken |-> 0, changes |-> <<>>,
      verification_results |-> <<>>, all_verifications_passed |-> FALSE,
      error_message |-> None ]

\* complete() sending a run whose verification failed back to executing
CompleteRetry(r, success) ==
    [r EXCEPT !.success = success,
              !.status = IF success THEN "completed" ELSE "executing"]

\* AgentResult.complete
Complete(r, success) ==
    [r EXCEPT !.success = success,
              !.status = IF success THEN "completed" ELSE "failed"]

\* fail() recording the error without setting the status
FailKeepStatus(r, error_message) ==
    [r EXCEPT !.success = FALSE, !.error_message = error_message]

\* AgentResult.fail
Fail(r, error_message) ==
    [r EXCEPT !.success = FALSE, !.status = "failed", !.error_message = error_message]

\* PlanStep(step_number, action, target_file, description) with status "pending"
NewPlanStep(file) == [target_file |-> file, status |-> "pending", error |-> None]

\* the plans the planner can return: up to MaxPlanSteps steps over Files
Plans ==
    UNION { [1..n -> {NewPlanStep(f) : f \in Files}] : n \in 0..MaxPlanSteps }

\* PLCChange(file_path, old_code, new_code, agent_turn) built by _make_change
NewChange(step, new_code, turn) ==
    [ file_path |-> step.target_file, old_code |-> ReadFile(step.target_file),
      new_code |-> new_code, agent_turn |-> turn ]

Init ==
    /\ dry_run \in BOOLEAN
    /\ max_turns \in 1..MaxTurnsBound
    /\ enable_quick_verify \in BOOLEAN
    /\ mig_pc = "start"
    /\ filtered_sites = <<>>
    /\ site_i = 1
    /\ pc = "none"
    /\ result = NewAgentResult
    /\ plan = <<>>
    /\ step_i = 1
    /\ turns_taken = 0
    /\ changes = <<>>
    /\ timer_expired = FALSE
    /\ audit = <<>>
    /\ site_results = <<>>
    /\ verifier_results = <<>>
    /\ runs_started = [s \in {Fleet[i] : i \in 1..Len(Fleet)} |-> 0]
    /\ migration_result = NoMigrationResult
    /\ event_id = None
    /\ call = NoCall
    /\ jobs = NoJobs
    /\ task_pc = "none"
    /\ response = NoResponse

(* --------------------------- PLCAgent.execute -------------------------- *)

\* execute, lines 175-185: the provider is initialised, the run enters planning
GetLlmProvider ==
    /\ pc = "init"
    /\ result' = [result EXCEPT !.status = "planning"]
    /\ pc' = "planning"
    /\ UNCHANGED << plan, step_i, turns_taken, changes, timer_expired, audit >>
    /\ UNCHANGED << config_vars, fleet_vars >>

\* execute, lines 183-188: _discover_relevant_files and _create_plan return a
\* plan (the fallback plan included), the run enters executing
CreatePlan ==
    /\ pc = "planning"
    /\ \E p \in Plans : plan' = p
    /\ result' = [result EXCEPT !.status = "executing"]
    /\ step_i' = 1
    /\ pc' = "executing"
    /\ UNCHANGED << turns_taken, changes, timer_expired, audit >>
    /\ UNCHANGED << config_vars, fleet_vars >>

\* _execute_plan, lines 410-420: the next step is started while turn budget remains
StepStart ==
    /\ pc = "executing"
    /\ step_i <= Len(plan)
    /\ ~ (turns_taken >= max_turns)
    /\ plan' = [plan EXCEPT ![step_i].status = "in_progress"]
    /\ pc' = "make_change"
    /\ UNCHANGED << result, step_i, turns_taken, changes, timer_expired, audit >>
    /\ UNCHANGED << config_vars, fleet_vars >>

\* every step of the plan closed as completed
StepCompletedAll(p) == [i \in 1..Len(p) |-> [p[i] EXCEPT !.status = "completed"]]

\* the step is closed as completed and the loop moves on
StepCompleted(p) == [p EXCEPT ![step_i].status = "completed"]

\* _execute_plan, lines 422-437, with _make_change: the generation call answers
\* with a text; the change is appended, the turn counted, quick-verified
MakeChangeOk ==
    /\ pc = "make_change"
    /\ \E code \in CodeTexts :
         LET change == NewChange(plan[step_i], code, turns_taken + 1) IN
         /\ changes' = Append(changes, change)
         /\ turns_taken' = turns_taken + 1
         /\ IF enable_quick_verify /\ ~ QuickVerify(change)
            THEN /\ pc' = "fix"
                 /\ UNCHANGED << plan, step_i >>
            ELSE /\ pc' = "executing"
                 /\ plan' = StepCompleted(plan)
                 /\ step_i' = step_i + 1
    /\ UNCHANGED << result, timer_expired, audit >>
    /\ UNCHANGED << config_vars, fleet_vars >>

\* _make_change, lines 516-518: the generation call fails, no change is
\* returned; _execute_plan, line 436, marks the step completed
MakeChangeNone ==
    /\ pc = "make_change"
    /\ plan' = StepCompleted(plan)
    /\ step_i' = step_i + 1
    /\ pc' = "executing"
    /\ UNCHANGED << result, turns_taken, changes, timer_expired, audit >>
    /\ UNCHANGED << config_vars, fleet_vars >>

\* the per-step handler re-raising: a failed step ends the whole run
StepFailedAborts ==
    /\ pc = "make_change"
    /\ plan' = [plan EXCEPT ![step_i].status = "failed", ![step_i].error = "error"]
    /\ result' = Fail(result, "error")
    /\ pc' = "returned"
    /\ UNCHANGED << step_i, turns_taken, changes, timer_expired, audit >>
    /\ UNCHANGED << config_vars, fleet_vars >>

\* _execute_plan, lines 439-443: an exception escapes _make_change (reading
\* the file, building the prompt); the step is marked failed, the loop goes on
StepFailed ==
    /\ pc = "make_change"
    /\ plan' = [plan EXCEPT ![step_i].status = "failed", ![step_i].error = "error"]
    /\ step_i' = step_i + 1
    /\ pc' = "executing"
    /\ UNCHANGED << result, turns_taken, changes, timer_expired, audit >>
    /\ UNCHANGED << config_vars, fleet_vars >>

\* the fix quick-verified again, and fixed again when it is rejected
AttemptFixOkVerifiedAgain ==
    /\ pc = "fix"
    /\ \E code \in CodeTexts :
         /\ changes' = [changes EXCEPT ![Len(changes)].new_code = code]
         /\ IF QuickVerify([changes[Len(changes)] EXCEPT !.new_code = code])
            THEN /\ plan' = StepCompleted(plan)
                 /\ step_i' = step_i + 1
                 /\ pc' = "executing"
            ELSE UNCHANGED << plan, step_i, pc >>
    /\ turns_taken' = turns_taken + 1
    /\ UNCHANGED << result, timer_expired, audit >>
    /\ UNCHANGED << config_vars, fleet_vars >>

\* _attempt_fix, lines 595-605: the fix replaces the candidate's new_code in
\* place and a turn is counted; the step is then marked completed
AttemptFixOk ==
    /\ pc = "fix"
    /\ \E code \in CodeTexts :
         changes' = [changes EXCEPT ![Len(changes)].new_code = code]
    /\ turns_taken' = turns_taken + 1
    /\ plan' = StepCompleted(plan)
    /\ step_i' = step_i + 1
    /\ pc' = "executing"
    /\ UNCHANGED << result, timer_expired, audit >>
    /\ UNCHANGED << config_vars, fleet_vars >>

\* _attempt_fix, lines 607-608: the fix generation fails, the candidate stays
AttemptFixFailed ==
    /\ pc = "fix"
    /\ plan' = StepCompleted(plan)
    /\ step_i' = step_i + 1
    /\ pc' = "executing"
    /\ UNCHANGED << result, turns_taken, changes, timer_expired, audit >>
    /\ UNCHANGED << config_vars, fleet_vars >>

\* the loop ending with the steps it did not start marked failed
EnterVerifyingFailsRest ==
    /\ pc = "executing"
    /\ (step_i > Len(plan) \/ turns_taken >= max_turns)
    /\ plan' = [i \in 1..Len(plan) |->
                   IF i >= step_i THEN [plan[i] EXCEPT !.status = "failed"] ELSE plan[i]]
    /\ result' = [result EXCEPT !.status = "verifying"]
    /\ pc' = "verifying"
    /\ UNCHANGED << step_i, turns_taken, changes, timer_expired, audit >>
    /\ UNCHANGED << config_vars, fleet_vars >>

\* _execute_plan, lines 410-417, and execute, line 192: the step loop ends by
\* exhaustion or by the turn budget, the run enters verifying
EnterVerifying ==
    /\ pc = "executing"
    /\ (step_i > Len(plan) \/ turns_taken >= max_turns)
    /\ result' = [result EXCEPT !.status = "verifying"]
    /\ pc' = "verifying"
    /\ UNCHANGED << plan, step_i, turns_taken, changes, timer_expired, audit >>
    /\ UNCHANGED << config_vars, fleet_vars >>

\* the outcome appended when a check raises: {"passed": False, "error": str(e)},
\* which has no "critical" key (read with .get("critical", False))
Raised(kind) == [kind |-> kind, passed |-> FALSE, critical |-> FALSE]

\* PLCAgent._final_verification: the outcomes of the agent's gate; a check
\* that raises contributes the outcome of its except branch
FinalVerificationResults(chs, site, compile_raised, safety_raised) ==
    IF chs = <<>> THEN <<>>
    ELSE << IF compile_raised THEN Raised("compile") ELSE CompilerVerify(chs, site),
            IF safety_raised THEN Raised("safety") ELSE SafetyVerify(chs, site) >>

\* the ways one run of the agent's gate can go: which checks raise give the
\* outcomes, and a safety_violation is logged when the safety check returned
\* a failing result (lines 643-649)
FinalVerificationRuns(chs, site) ==
    { [ results |-> FinalVerificationResults(chs, site, compile_raised, safety_raised),
        violation_logged |->
            (chs # <<>> /\ ~ safety_raised /\ ~ SafetyVerify(chs, site).passed) ] :
      compile_raised \in BOOLEAN, safety_raised \in BOOLEAN }

\* execute, lines 193-201, with _final_verification
FinalVerification ==
    /\ pc = "verifying"
    /\ \E run \in FinalVerificationRuns(changes, CurrentSite) :
       LET results == run.results
           verification_passed == AllPassed(results)
       IN  /\ audit' = IF run.violation_logged
                       THEN Append(audit, [event_type |-> "safety_violation",
                                           site_name |-> CurrentSite])
                       ELSE audit
           /\ result' = Complete(
                  [result EXCEPT !.verification_results = results,
                                 !.all_verifications_passed = verification_passed,
                                 !.turns_taken = turns_taken,
                                 !.changes = changes],
                  verification_passed)
    /\ pc' = "returned"
    /\ UNCHANGED << plan, step_i, turns_taken, changes, timer_expired >>
    /\ UNCHANGED << config_vars, fleet_vars >>

\* execute, lines 211-219: an exception escapes a phase of the loop: provider
\* creation or initialisation, file discovery (Path.exists outside any try),
\* the verifier imports of _final_verification. Every statement of the step
\* loop that can raise is inside the per-step try of _execute_plan.
LoopFault ==
    /\ pc \in {"init", "planning", "verifying"}
    /\ \E kind \in {"timeout", "error"} :
         result' = Fail(result, IF kind = "timeout"
                                THEN "Execution timeout exceeded" ELSE "error")
    /\ pc' = "returned"
    /\ UNCHANGED << plan, step_i, turns_taken, changes, timer_expired, audit >>
    /\ UNCHANGED << config_vars, fleet_vars >>

\* a generation call (planner, proposer, fix attempt) never completes:
\* execute stays suspended at its await
GenerationHangs ==
    /\ pc \in {"planning", "make_change", "fix"}
    /\ pc' = "blocked"
    /\ UNCHANGED << result, plan, step_i, turns_taken, changes, timer_expired, audit >>
    /\ UNCHANGED << config_vars, fleet_vars >>

\* AgentConfig.timeout_seconds pass while the generation call is outstanding;
\* execute never reads the clock and never bounds its awaits
TimeoutExpires ==
    /\ pc = "blocked"
    /\ ~ timer_expired
    /\ timer_expired' = TRUE
    /\ UNCHANGED << pc, result, plan, step_i, turns_taken, changes, audit >>
    /\ UNCHANGED << config_vars, fleet_vars >>

(* ------------------------- FleetManager ------------------------------- *)

\* an audit entry (AuditLogger._write_audit_entry)
Event(event_type, site) == [event_type |-> event_type, site_name |-> site]

\* what site selection can return: the sites of the fleet that are named or
\* that match, in fleet order (run_migration, lines 119-123)
Selections == { SelectSeq(Fleet, LAMBDA s : s \in S) : S \in SUBSET Sites }

\* log_migration_started, line 223: the event id is a fresh uuid4
NewEventId == "uuid-1"

\* log_migration_started, lines 215-233: the migration_started entry
MigrationStartedEvent(id, selected) ==
    [ event_type |-> "migration_started", site_name |-> None, event_id |-> id,
      target_sites |-> selected, site_count |-> Len(selected) ]

\* an early return that logs migration_started first
EarlyReturnAuditStarted(a) == Append(a, MigrationStartedEvent(NewEventId, <<>>))

\* run_migration, lines 100-137: what the audit sink holds when run_migration
\* returns before line 142
EarlyReturnAudit(a) == a

\* run_migration, lines 100-115: _load_migration finds no definition file and
\* raises FileNotFoundError; a failed MigrationResult is returned
MigrationNotFound ==
    /\ mig_pc = "start"
    /\ migration_result' =
           [ status |-> "failed", total_sites |-> 0, successful_sites |-> 0,
             failed_sites |-> 0, skipped_sites |-> 0, site_results |-> <<>> ]
    /\ audit' = EarlyReturnAudit(audit)
    /\ mig_pc' = "done"
    /\ UNCHANGED << filtered_sites, site_i, site_results, verifier_results, runs_started,
                    event_id >>
    /\ UNCHANGED << config_vars, agent_vars >>

\* run_migration, lines 117-137: the definition is loaded, no site is
\* selected; a completed MigrationResult is returned
NoSitesSelected ==
    /\ mig_pc = "start"
    /\ filtered_sites' = <<>>
    /\ migration_result' =
           [ status |-> "completed", total_sites |-> 0, successful_sites |-> 0,
             failed_sites |-> 0, skipped_sites |-> Len(Fleet), site_results |-> <<>> ]
    /\ audit' = EarlyReturnAudit(audit)
    /\ mig_pc' = "done"
    /\ UNCHANGED << site_i, site_results, verifier_results, runs_started, event_id >>
    /\ UNCHANGED << config_vars, agent_vars >>

\* run_migration, lines 117-146: the definition is loaded, the sites are
\* selected, migration_started is logged
MigrationStart ==
    /\ mig_pc = "start"
    /\ \E selected \in Selections \ { <<>> } : filtered_sites' = selected
    /\ mig_pc' = "sites"
    /\ event_id' = NewEventId
    /\ audit' = Append(audit, MigrationStartedEvent(NewEventId, filtered_sites'))
    /\ UNCHANGED << site_i, site_results, verifier_results, runs_started, migration_result >>
    /\ UNCHANGED << config_vars, agent_vars >>

\* the site loop going on to the next site without waiting
PreviousLoopAny == TRUE

\* run_migration, lines 148-161: the site loop awaits _run_agent_on_site, so
\* it reaches the next site when the previous site's call has returned
PreviousLoopEnded == pc = "none"

\* _run_agent_on_site, lines 287-299, and execute, lines 151-161: a fresh
\* agent is built for the next site and its execute is called
StartSite ==
    /\ mig_pc = "sites"
    /\ PreviousLoopEnded
    /\ site_i <= Len(filtered_sites)
    /\ runs_started' = [runs_started EXCEPT ![CurrentSite] = @ + 1]
    /\ result' = NewAgentResult
    /\ plan' = <<>>
    /\ step_i' = 1
    /\ turns_taken' = 0
    /\ changes' = <<>>
    /\ timer_expired' = FALSE
    /\ pc' = "init"
    /\ verifier_results' = <<>>
    /\ UNCHANGED << mig_pc, filtered_sites, site_i, site_results, migration_result, audit,
                    event_id >>
    /\ UNCHANGED config_vars

\* the gate stopping at the first check that does not pass
VerifierResultsShortCircuit(chs, site, raised, errored, approved, confidence) ==
    LET compile == IF raised.compile THEN Raised("compile") ELSE CompilerVerify(chs, site)
        safety == IF raised.safety THEN Raised("safety") ELSE SafetyVerify(chs, site)
        judge == IF raised.judge THEN Raised("judge")
                 ELSE RunLlmJudge(chs, errored, approved, confidence)
    IN  IF ~ compile.passed THEN << compile >>
        ELSE IF ~ safety.passed THEN << compile, safety >>
        ELSE << compile, safety, judge >>

\* _run_agent_on_site, lines 305-344: the three checks of the orchestrator's
\* gate, each in its own try; a check that raises contributes the outcome of
\* its except branch
VerifierResults(chs, site, raised, errored, approved, confidence) ==
    << IF raised.compile THEN Raised("compile") ELSE CompilerVerify(chs, site),
       IF raised.safety THEN Raised("safety") ELSE SafetyVerify(chs, site),
       IF raised.judge THEN Raised("judge")
       ELSE RunLlmJudge(chs, errored, approved, confidence) >>

\* the change request created whenever the run is not a dry run
CreatesChangeRequestUngated(all_passed, dry) == ~ dry

\* _run_agent_on_site, line 348: a change request is created
CreatesChangeRequest(all_passed, dry) == all_passed /\ ~ dry

\* _run_agent_on_site, line 367: change_request_id of the site result
ChangeRequestId(all_passed, dry, site) ==
    IF all_passed THEN "CAR-" \o site ELSE None

\* _run_agent_on_site, lines 361-371
NewSiteMigrationResult(site, all_passed, dry, chs) ==
    [ site_name |-> site,
      status |-> IF all_passed THEN "completed" ELSE "failed",
      success |-> all_passed,
      changes_made |-> Len(chs),
      verification_passed |-> all_passed,
      change_request_id |-> ChangeRequestId(all_passed, dry, site) ]

\* what the judge's generation call can do: fail, or answer with a verdict
\* and a confidence (in tenths)
JudgeAnswers ==
    { [errored |-> TRUE, approved |-> FALSE, confidence |-> 5] }
    \cup [errored : {FALSE}, approved : BOOLEAN, confidence : {5, 7, 9}]

\* the ways one run of the orchestrator's gate can go: which checks raise
\* and what the judge's generation call answers give the outcomes, and the
\* safety result is logged unless the safety check raised
GateRuns(chs, site) ==
    { [ outcomes |-> VerifierResults(chs, site, raised, answer.errored,
                                     answer.approved, answer.confidence),
        safety_logged |-> ~ raised.safety ] :
      raised \in [compile : BOOLEAN, safety : BOOLEAN, judge : BOOLEAN],
      answer \in JudgeAnswers }

\* the orchestrator reporting a failed safety result as a safety violation
SafetyResultEventAsViolation(site, outcome) ==
    IF outcome.passed THEN Event("verification_result", site)
    ELSE Event("safety_violation", site)

\* _run_agent_on_site, lines 326-332: the safety result is logged with
\* log_verification_result, whatever it is
SafetyResultEvent(site, outcome) == Event("verification_result", site)

\* _run_agent_on_site, lines 300-371, with _create_change_request: execute has
\* returned, the gate is run on result.changes, the site result is reported;
\* the agent is closed and released
SiteGate ==
    /\ pc = "returned"
    /\ \E run \in GateRuns(result.changes, CurrentSite) :
         LET outcomes == run.outcomes
             all_passed == AllPassed(outcomes)
             logged == IF run.safety_logged
                       THEN Append(audit, SafetyResultEvent(CurrentSite, outcomes[2]))
                       ELSE audit
         IN  /\ audit' = IF CreatesChangeRequest(all_passed, dry_run)
                         THEN Append(logged, Event("car_created", CurrentSite))
                         ELSE logged
             /\ verifier_results' = outcomes
             /\ site_results' = Append(site_results,
                    NewSiteMigrationResult(CurrentSite, all_passed, dry_run, result.changes))
    /\ pc' = "none"
    /\ site_i' = site_i + 1
    /\ result' = NewAgentResult
    /\ plan' = <<>>
    /\ step_i' = 1
    /\ turns_taken' = 0
    /\ changes' = <<>>
    /\ timer_expired' = FALSE
    /\ UNCHANGED << mig_pc, filtered_sites, runs_started, migration_result, event_id >>
    /\ UNCHANGED config_vars

\* sum(1 for r in site_results if r.success)
CountSuccess(rs) == Cardinality({i \in 1..Len(rs) : rs[i].success})

\* no site counted as skipped
SkippedSitesNone(fleet, selected) == 0

\* run_migration, line 187: skipped_sites of the MigrationResult
SkippedSites(fleet, selected) == Len(fleet) - Len(selected)

\* run_migration, lines 163-189: the MigrationResult of a migration whose
\* site loop has ended
NewMigrationResult(fleet, selected, rs) ==
    LET successful == CountSuccess(rs)
        failed == Len(rs) - successful
    IN  [ status |-> IF failed = 0 THEN "completed" ELSE "partial",
          total_sites |-> Len(rs),
          successful_sites |-> successful,
          failed_sites |-> failed,
          skipped_sites |-> SkippedSites(fleet, selected),
          site_results |-> rs ]

\* a completion entry written under an event id of its own
MigrationCompletedEventOwnId(id, rs) ==
    [ event_type |-> "migration_completed", site_name |-> None, event_id |-> "uuid-2",
      success_count |-> CountSuccess(rs),
      failure_count |-> Len(rs) - CountSuccess(rs) ]

\* run_migration, lines 163-176, and log_migration_completed, lines 235-253:
\* the migration_completed entry, with the id of the migration_started entry
\* and the counts of the site results
MigrationCompletedEvent(id, rs) ==
    [ event_type |-> "migration_completed", site_name |-> None, event_id |-> id,
      success_count |-> CountSuccess(rs),
      failure_count |-> Len(rs) - CountSuccess(rs) ]

\* run_migration, lines 163-192: totals, migration_completed, MigrationResult
MigrationComplete ==
    /\ mig_pc = "sites"
    /\ pc = "none"
    /\ site_i > Len(filtered_sites)
    /\ migration_result' = NewMigrationResult(Fleet, filtered_sites, site_results)
    /\ audit' = Append(audit, MigrationCompletedEvent(event_id, site_results))
    /\ mig_pc' = "done"
    /\ UNCHANGED << filtered_sites, site_i, site_results, verifier_results, runs_started,
                    event_id >>
    /\ UNCHANGED << config_vars, agent_vars >>

(* --------------------------- specification ----------------------------- *)

Next ==
    \/ MigrationNotFound
    \/ NoSitesSelected
    \/ MigrationStart
    \/ StartSite
    \/ GetLlmProvider
    \/ CreatePlan
    \/ StepStart
    \/ MakeChangeOk
    \/ MakeChangeNone
    \/ StepFailed
    \/ AttemptFixOk
    \/ AttemptFixFailed
    \/ EnterVerifying
    \/ FinalVerification
    \/ LoopFault
    \/ GenerationHangs
    \/ TimeoutExpires
    \/ SiteGate
    \/ MigrationComplete

Spec == Init /\ [][Next]_vars

\* the event loop keeps running whatever is ready to run
FairSpec == Init /\ [][Next]_vars /\ WF_vars(Next)

\* a migration whose agents are configured with the smallest turn budget
\* (AgentConfig.max_turns = 1) and with quick verification
SingleTurnInit ==
    /\ Init
    /\ max_turns = 1
    /\ enable_quick_verify

\* that migration, on an event loop that keeps running what is ready to run
FairSingleTurnSpec == SingleTurnInit /\ [][Next]_vars /\ WF_vars(Next)


(* ----------------------- one agent, called again ----------------------- *)

\* how often execute is called on one PLCAgent instance
MaxExecutions == 2

\* execute, lines 151-161, called on a PLCAgent that is idle or whose earlier
\* call has returned: a new AgentContext and a new AgentResult are created;
\* self.changes, set up in __init__ (line 97), is not touched
Execute ==
    /\ mig_pc = "agent"
    /\ pc \in {"none", "returned"}
    /\ runs_started[CurrentSite] < MaxExecutions
    /\ runs_started' = [runs_started EXCEPT ![CurrentSite] = @ + 1]
    /\ result' = NewAgentResult
    /\ plan' = <<>>
    /\ step_i' = 1
    /\ turns_taken' = 0
    /\ timer_expired' = FALSE
    /\ pc' = "init"
    /\ UNCHANGED << changes, audit, mig_pc, filtered_sites, site_i, site_results,
                    verifier_results, migration_result, event_id >>
    /\ UNCHANGED config_vars

\* a PLCAgent built for one site of the fleet, outside any migration
AgentInit ==
    /\ dry_run = TRUE
    /\ max_turns \in 1..MaxTurnsBound
    /\ enable_quick_verify \in BOOLEAN
    /\ mig_pc = "agent"
    /\ filtered_sites \in { << s >> : s \in Sites }
    /\ site_i = 1
    /\ pc = "none"
    /\ result = NewAgentResult
    /\ plan = <<>>
    /\ step_i = 1
    /\ turns_taken = 0
    /\ changes = <<>>
    /\ timer_expired = FALSE
    /\ audit = <<>>
    /\ site_results = <<>>
    /\ verifier_results = <<>>
    /\ runs_started = [s \in Sites |-> 0]
    /\ migration_result = NoMigrationResult
    /\ event_id = None
    /\ call = NoCall
    /\ jobs = NoJobs
    /\ task_pc = "none"
    /\ response = NoResponse

AgentNext ==
    \/ Execute
    \/ GetLlmProvider
    \/ CreatePlan
    \/ StepStart
    \/ MakeChangeOk
    \/ MakeChangeNone
    \/ StepFailed
    \/ AttemptFixOk
    \/ AttemptFixFailed
    \/ EnterVerifying
    \/ FinalVerification
    \/ LoopFault
    \/ GenerationHangs
    \/ TimeoutExpires

AgentSpec == AgentInit /\ [][AgentNext]_vars

(* ------------------- functions called on their own --------------------- *)

\* largest number of changes of a change set handed to a check on its own
MaxCallChanges == 2

\* SiteConfig.certified_modules of every site of the fleet
CertifiedModulesOf(site) ==
    IF site = "s1" THEN {"certified_safety_logic.st"} ELSE {"guard_logic.st"}

\* the files a change handed to the safety check can target
CallFiles == Files \cup {"guard_logic.st"}

\* before texts of such a change: plain code, code with an emergency-stop
\* keyword, a line comment followed by keyword code on the next line
OldTexts ==
    { <<"a">>, <<"E_STOP", "a">>, <<"//", "c", "\n", "E_STOP">> }

\* after texts of such a change
NewTexts ==
    { <<"a">>, <<"E_STOP", "a">>, <<"E_STOP", "a", "//", "d">>,
      <<"/*", "d", "*/", "E_STOP", "a">>, <<"//", "d", "\n", "a">>, <<"FORCE">> }

\* the change sets handed to the safety check (PLCChange.model_dump())
ChangeSets ==
    UNION { [1..n -> [file_path : CallFiles, old_code : OldTexts,
                      new_code : NewTexts, agent_turn : {1}]] :
            n \in 0..MaxCallChanges }

\* SafetyVerifier().verify(changes, site) called once
SafetyVerifyCall ==
    /\ call = NoCall
    /\ \E site \in Sites, chs \in ChangeSets :
         call' = [ op |-> "safety", site |-> site, changes |-> chs,
                   details |-> SafetyChecks(chs, site),
                   outcome |-> SafetyVerify(chs, site) ]
    /\ UNCHANGED << dry_run, max_turns, enable_quick_verify, audit >>
    /\ UNCHANGED << agent_vars, fleet_vars, api_vars >>

\* str.upper() of a token
Upper(tok) ==
    CASE tok = "approved" -> "APPROVED"
      [] tok = "verdict:" -> "VERDICT:"
      [] OTHER -> tok

\* the confidence assumed when the reply states none that parses, in tenths
default_confidence == 8

\* the tokens that end in a colon
ColonTokens == {"VERDICT:", "CONFIDENCE:", "REASONING:", "NOTE:"}

\* float(text) succeeds: the text is a numeral
IsNumeral(tok) == tok \in {"0.5", "0.7", "0.9"}

\* float(text), in tenths
Float(tok) ==
    CASE tok = "0.5" -> 5
      [] tok = "0.7" -> 7
      [] tok = "0.9" -> 9

\* content.upper(), content being the lines of the reply
UpperContent(content) ==
    [i \in 1..Len(content) |-> [j \in 1..Len(content[i]) |-> Upper(content[i][j])]]

\* line.split(":")[-1].strip(): what follows the last colon of the line
AfterLastColon(line) ==
    LET colons == {j \in 1..Len(line) : line[j] \in ColonTokens}
        last == CHOOSE j \in colons : \A k \in colons : k <= j
    IN  SubSeq(line, last + 1, Len(line))

\* _run_llm_judge, line 536: "APPROVED" in content, anywhere in the reply
JudgeApproved(content) ==
    \E i \in 1..Len(content) :
        \E j \in 1..Len(content[i]) : UpperContent(content)[i][j] = "APPROVED"

\* _run_llm_judge, lines 539-545: the number after the last colon of the first
\* line holding "CONFIDENCE:", the default when there is no such line or the
\* text there is no number
JudgeConfidence(content) ==
    LET upper == UpperContent(content)
        hits == {i \in 1..Len(upper) :
                    \E j \in 1..Len(upper[i]) : upper[i][j] = "CONFIDENCE:"}
    IN  IF hits = {} THEN default_confidence
        ELSE LET conf_line == upper[CHOOSE i \in hits : \A k \in hits : i <= k]
                 text == AfterLastColon(conf_line)
             IN  IF Len(text) = 1 /\ IsNumeral(text[1])
                 THEN Float(text[1]) ELSE default_confidence

\* _run_llm_judge, lines 490-497 and 520-560: the judge on a change set, with
\* the judge enabled or not, the generation call failing or replying content
RunLlmJudgeOn(chs, enabled, errored, content) ==
    IF chs # <<>> /\ ~ enabled
    THEN [kind |-> "judge", passed |-> TRUE, critical |-> FALSE]
    ELSE RunLlmJudge(chs, errored,
                     IF errored THEN FALSE ELSE JudgeApproved(content),
                     IF errored THEN default_confidence ELSE JudgeConfidence(content))

\* the lines a reply of the judge model is made of
VerdictLines ==
    { <<"VERDICT:", "APPROVED">>, <<"VERDICT:", "REJECTED">>, <<"verdict:", "approved">> }

ConfidenceLines ==
    { <<"CONFIDENCE:", "0.5">>, <<"CONFIDENCE:", "0.7">>, <<"CONFIDENCE:", "0.9">>,
      <<"CONFIDENCE:", "HIGH">>, <<"CONFIDENCE:", "0.5", "NOTE:", "LOW">> }

ReasoningLines ==
    { <<"REASONING:", "OK">>, <<"REASONING:", "NOT", "APPROVED">> }

\* the replies of the judge model: a verdict line, then a confidence line
\* and a reasoning line, each present or not
JudgeReplies ==
    { <<v>> : v \in VerdictLines }
    \cup { <<v, c>> : v \in VerdictLines, c \in ConfidenceLines }
    \cup { <<v, r>> : v \in VerdictLines, r \in ReasoningLines }
    \cup { <<v, c, r>> : v \in VerdictLines, c \in ConfidenceLines, r \in ReasoningLines }

\* _run_llm_judge(changes, prompt) called once
RunLlmJudgeCall ==
    /\ call = NoCall
    /\ \E chs \in {cs \in ChangeSets : Len(cs) <= 1 /\ \A i \in 1..Len(cs) :
                       cs[i].file_path = "main.st" /\ cs[i].old_code = <<"a">>
                       /\ cs[i].new_code = <<"E_STOP", "a">>},
          enabled \in BOOLEAN,
          reply \in { [errored |-> TRUE, content |-> <<>>] }
                    \cup [errored : {FALSE}, content : JudgeReplies] :
         call' = [ op |-> "judge", changes |-> chs, enabled |-> enabled,
                   errored |-> reply.errored, content |-> reply.content,
                   outcome |-> RunLlmJudgeOn(chs, enabled, reply.errored, reply.content) ]
    /\ UNCHANGED << dry_run, max_turns, enable_quick_verify, audit >>
    /\ UNCHANGED << agent_vars, fleet_vars, api_vars >>

\* SafetyRating.level
Level(rating) ==
    CASE rating = "None" -> 0
      [] rating = "SIL-1" -> 1
      [] rating = "SIL-2" -> 2
      [] rating = "SIL-3" -> 3
      [] rating = "SIL-4" -> 4
      [] OTHER -> 0

\* the comparison made strict
RatingGeStrict(a, b) == Level(a) > Level(b)

\* SafetyRating.__ge__
RatingGe(a, b) == Level(a) >= Level(b)

\* the fleet the site filter is applied to (FleetManager.sites); texts are
\* sequences of characters or words
FilterFleet ==
    << [ name |-> "A", plc_type |-> "Siemens S7-1500",
         firmware_version |-> <<"2", ".", "9">>, safety_rating |-> "SIL-2",
         location |-> <<"Detroit", "MI">>, tags |-> {"press"} ],
       [ name |-> "B", plc_type |-> "Siemens S7-1500",
         firmware_version |-> <<"2", ".", "1", "0">>, safety_rating |-> "SIL-1",
         location |-> <<"Munich">>, tags |-> {} ],
       [ name |-> "C", plc_type |-> "Beckhoff TwinCAT",
         firmware_version |-> <<"3", ".", "1">>, safety_rating |-> "SIL-3",
         location |-> <<"detroit">>, tags |-> {"press", "weld"} ] >>

\* str.lower() of a word
Lower(tok) ==
    CASE tok = "Detroit" -> "detroit"
      [] tok = "MI" -> "mi"
      [] tok = "Munich" -> "munich"
      [] OTHER -> tok

\* str.lower()
LowerText(text) == [i \in 1..Len(text) |-> Lower(text[i])]

\* text.startswith(prefix)
StartsWith(text, prefix) ==
    Len(prefix) <= Len(text) /\ SubSeq(text, 1, Len(prefix)) = prefix

\* part in text
Contains(text, part) ==
    \E i \in 0..(Len(text) - Len(part)) : SubSeq(text, i + 1, i + Len(part)) = part

\* the filter with the exclude list applied before the include list
FilterSitesExcludeFirst(sites, filters) ==
    LET kept == SelectSeq(sites, LAMBDA s : s.name \notin filters.exclude_sites)
    IN  IF filters.include_sites # {}
        THEN SelectSeq(kept, LAMBDA s : s.name \in filters.include_sites)
        ELSE kept

\* FleetManager._filter_sites: a criterion whose value is empty is skipped
FilterSites(sites, filters) ==
    IF filters.include_sites # {}
    THEN SelectSeq(sites, LAMBDA s : s.name \in filters.include_sites)
    ELSE
      LET f1 == IF filters.exclude_sites # {}
                THEN SelectSeq(sites, LAMBDA s : s.name \notin filters.exclude_sites)
                ELSE sites
          f2 == IF filters.plc_type # ""
                THEN SelectSeq(f1, LAMBDA s : s.plc_type = filters.plc_type)
                ELSE f1
          f3 == IF filters.firmware_version # <<>>
                THEN SelectSeq(f2, LAMBDA s :
                         StartsWith(s.firmware_version, filters.firmware_version))
                ELSE f2
          f4 == IF filters.safety_rating # ""
                THEN SelectSeq(f3, LAMBDA s :
                         RatingGe(s.safety_rating, filters.safety_rating))
                ELSE f3
          f5 == IF filters.location # <<>>
                THEN SelectSeq(f4, LAMBDA s :
                         Contains(LowerText(s.location), LowerText(filters.location)))
                ELSE f4
          f6 == IF filters.tags # {}
                THEN SelectSeq(f5, LAMBDA s : filters.tags \subseteq s.tags)
                ELSE f5
      IN  f6

\* run_migration, lines 119-123: explicit target sites replace the filter
SelectSites(target_sites, filters) ==
    IF target_sites # {}
    THEN SelectSeq(FilterFleet, LAMBDA s : s.name \in target_sites)
    ELSE FilterSites(FilterFleet, filters)

\* the filters of a migration definition (TargetFilter.model_dump()), an
\* unspecified criterion being empty
TargetFilters ==
    [ include_sites : SUBSET {"A", "C", "X"},
      exclude_sites : SUBSET {"A", "B"},
      plc_type : {"", "Siemens S7-1500", "Beckhoff TwinCAT"},
      firmware_version : { <<>>, <<"2">>, <<"2", ".", "1">> },
      safety_rating : {"", "None", "SIL-2", "SIL-4"},
      location : { <<>>, <<"detroit">>, <<"MI">> },
      tags : { {}, {"press"}, {"press", "weld"} } ]

\* run_migration's site selection called once
SelectSitesCall ==
    /\ call = NoCall
    /\ \E target_sites \in { {}, {"B"}, {"A", "X"} }, filters \in TargetFilters :
         call' = [ op |-> "select", target_sites |-> target_sites, filters |-> filters,
                   selected |-> SelectSites(target_sites, filters) ]
    /\ UNCHANGED << dry_run, max_turns, enable_quick_verify, audit >>
    /\ UNCHANGED << agent_vars, fleet_vars, api_vars >>

(* ------------------------------ planner ------------------------------- *)

\* longest generation output, in lines, among the short outputs explored
MaxPlanLines == 3

\* _parse_plan_steps, line 404: steps[:10]
plan_step_limit == 10

\* str.isdigit() of a character
IsDigit(tok) == tok \in {"1", "2"}

\* target_file of a PlanStep: None, or a file name
NoTarget == [given |-> FALSE]

\* target_file of a PlanStep naming a file
Target(name) == [given |-> TRUE, name |-> name]

\* PlanStep(step_number, action, target_file, description), the other fields
\* at their defaults
PlanStep(step_number, action, target_file, description) ==
    [ step_number |-> step_number, action |-> action, target_file |-> target_file,
      description |-> description, status |-> "pending", error |-> None ]

\* the index of the first occurrence of a token in a text, 0 if there is none
Find(text, tok) ==
    IF \E i \in 1..Len(text) : text[i] = tok
    THEN CHOOSE i \in 1..Len(text) : text[i] = tok /\ \A j \in 1..(i - 1) : text[j] # tok
    ELSE 0

RECURSIVE Split(_, _, _)
\* str.split(sep, maxsplit)
Split(text, sep, maxsplit) ==
    IF maxsplit = 0 \/ Find(text, sep) = 0 THEN << text >>
    ELSE << SubSeq(text, 1, Find(text, sep) - 1) >>
         \o Split(SubSeq(text, Find(text, sep) + 1, Len(text)), sep, maxsplit - 1)

\* _parse_plan_steps, lines 379-393: the step parsed from a stripped line
\* that starts with a digit
ParseStep(line, step_number) ==
    LET halves == Split(line, ".", 1)
        text == Strip(halves[Len(halves)])
        parts == Split(text, " - ", 2)
    IN  PlanStep(step_number,
                 Strip(parts[1]),
                 IF Len(parts) > 1 THEN Target(Strip(parts[2])) ELSE NoTarget,
                 IF Len(parts) > 2 THEN Strip(parts[3]) ELSE text)

RECURSIVE ParseLines(_, _)
\* _parse_plan_steps, lines 371-402: the loop over the lines of the output;
\* a line that is blank or does not start with a digit is passed over
ParseLines(lines, steps) ==
    IF lines = <<>> THEN steps
    ELSE LET line == Strip(Head(lines))
         IN  IF line = <<>> \/ ~ IsDigit(line[1])
             THEN ParseLines(Tail(lines), steps)
             ELSE ParseLines(Tail(lines), Append(steps, ParseStep(line, Len(steps) + 1)))

\* the parsed steps returned without a limit
ParsePlanStepsUnlimited(content) == ParseLines(content, <<>>)

\* PLCAgent._parse_plan_steps
ParsePlanSteps(content) ==
    LET steps == ParseLines(content, <<>>)
    IN  SubSeq(steps, 1, IF Len(steps) < plan_step_limit THEN Len(steps)
                         ELSE plan_step_limit)

\* no default plan
DefaultStepsNone(files) == <<>>

\* _create_plan, lines 357-364: the minimal default plan
DefaultSteps(files) ==
    << PlanStep(1, <<"review">>,
                IF files # <<>> THEN Target(<< files[1] >>) ELSE NoTarget,
                <<"Review and update code per task requirements">>) >>

\* the generation output is the empty string (its only line is empty)
IsEmptyContent(content) == content = << <<>> >>

\* _create_plan, lines 337-366: the steps of the returned ExecutionPlan
CreatePlanSteps(raised, content, files) ==
    IF raised \/ IsEmptyContent(content) THEN DefaultSteps(files)
    ELSE ParsePlanSteps(content)

\* lines a generation output can hold: empty, blank, in the requested
\* format, numbered without separators, prose, indented and numbered
PlanLines ==
    { <<>>, <<" ">>,
      <<"1", ".", " ", "fix", " - ", "main.st", " - ", "text">>,
      <<"2", ".", " ", "text">>,
      <<"text">>,
      <<" ", "1", " ", "fix">> }

\* a line in the requested format
NumberedLine == <<"1", ".", " ", "fix", " - ", "main.st", " - ", "text">>

\* outputs describing more steps than the limit: eleven numbered lines, and
\* twelve with prose between them
LongContents ==
    { [i \in 1..(plan_step_limit + 1) |-> NumberedLine],
      [i \in 1..(plan_step_limit + 3) |->
           IF i \in {1, 5} THEN <<"text">> ELSE NumberedLine] }

\* the outputs of the planner's generation call, as lines (content.split)
PlanContents ==
    UNION { [1..n -> PlanLines] : n \in 1..MaxPlanLines } \cup LongContents

\* _create_plan(prompt, files, llm) called once
CreatePlanCall ==
    /\ call = NoCall
    /\ \E reply \in { [raised |-> TRUE, content |-> << <<>> >>] }
                    \cup [raised : {FALSE}, content : PlanContents],
          files \in { <<>>, <<"main.st">> } :
         call' = [ op |-> "plan", raised |-> reply.raised, content |-> reply.content,
                   files |-> files,
                   steps |-> CreatePlanSteps(reply.raised, reply.content, files) ]
    /\ UNCHANGED << dry_run, max_turns, enable_quick_verify, audit >>
    /\ UNCHANGED << agent_vars, fleet_vars, api_vars >>

(* ----------------------------- both gates ----------------------------- *)

\* no check of a gate run raises
NoneRaised == [compile |-> FALSE, safety |-> FALSE, judge |-> FALSE]

\* _final_verification and the gate of _run_agent_on_site run on the same
\* change set and the same site, no check raising
BothGatesCall ==
    /\ call = NoCall
    /\ \E site \in Sites, chs \in {cs \in ChangeSets : Len(cs) <= 1},
          answer \in JudgeAnswers :
         call' = [ op |-> "gates", site |-> site, changes |-> chs,
                   agent |-> FinalVerificationResults(chs, site, FALSE, FALSE),
                   orchestrator |-> VerifierResults(chs, site, NoneRaised, answer.errored,
                                                    answer.approved, answer.confidence) ]
    /\ UNCHANGED << dry_run, max_turns, enable_quick_verify, audit >>
    /\ UNCHANGED << agent_vars, fleet_vars, api_vars >>

(* ----------------------------- line counts ---------------------------- *)

\* len(text.splitlines()): a line ends at each line break, and the text after
\* the last line break is a line if it is not empty
SplitLinesLen(text) ==
    IF text = <<>> THEN 0
    ELSE Count(text, "\n") + (IF text[Len(text)] = "\n" THEN 0 ELSE 1)

\* max(0, n)
Max0(n) == IF n > 0 THEN n ELSE 0

\* every line of the new text counted as added
LinesAddedAll(old_code, new_code) == SplitLinesLen(new_code)

\* PLCChange.lines_added
LinesAdded(old_code, new_code) ==
    Max0(SplitLinesLen(new_code) - SplitLinesLen(old_code))

\* PLCChange.lines_removed
LinesRemoved(old_code, new_code) ==
    Max0(SplitLinesLen(old_code) - SplitLinesLen(new_code))

\* before and after texts of a change: empty, one line with and without a
\* final line break, a lone line break, two and three lines
LineTexts ==
    { <<>>, <<"a">>, <<"a", "\n">>, <<"\n">>, <<"a", "\n", "b">>,
      <<"b", "\n", "a">>, <<"a", "\n", "b", "\n", "c">> }

\* lines_added and lines_removed of a PLCChange read once
LinesCall ==
    /\ call = NoCall
    /\ \E old_code \in LineTexts, new_code \in LineTexts :
         call' = [ op |-> "lines", old_code |-> old_code, new_code |-> new_code,
                   lines_added |-> LinesAdded(old_code, new_code),
                   lines_removed |-> LinesRemoved(old_code, new_code) ]
    /\ UNCHANGED << dry_run, max_turns, enable_quick_verify, audit >>
    /\ UNCHANGED << agent_vars, fleet_vars, api_vars >>

(* ---------------------------- token counters -------------------------- *)

\* LLMResponse.usage of a generation call: none reported (input_tokens and
\* output_tokens read as 0), or some tokens
Usages ==
    { [input_tokens |-> 0, output_tokens |-> 0],
      [input_tokens |-> 3, output_tokens |-> 1] }

\* the generation calls one plan step makes: the proposal, and the fix
\* attempt after it when quick verification rejects the candidate
StepCalls == { <<"propose">>, <<"propose", "fix">> }

RECURSIVE StepShapes(_)
\* the generation calls of a step loop of n steps, in order
StepShapes(n) ==
    IF n = 0 THEN { <<>> }
    ELSE { before \o step : before \in StepShapes(n - 1), step \in StepCalls }

\* the generation calls of a run that reached verification, in order: file
\* discovery (when the repository lists files), planning, the step loop
RunShapes ==
    { discovery \o <<"plan">> \o steps :
        discovery \in { <<>>, <<"discover">> },
        steps \in UNION { StepShapes(n) : n \in 0..MaxPlanSteps } }

\* the generation calls of a run with the usage each one reported
RunCalls ==
    UNION { { [i \in 1..Len(shape) |-> [kind |-> shape[i], usage |-> usage[i]]] :
                usage \in [1..Len(shape) -> Usages] } : shape \in RunShapes }

RECURSIVE TotalTokens(_, _, _)
\* the sum of one usage field over the calls of the given kinds
TotalTokens(calls, kinds, field) ==
    IF calls = <<>> THEN 0
    ELSE (IF Head(calls).kind \in kinds THEN Head(calls).usage[field] ELSE 0)
         + TotalTokens(Tail(calls), kinds, field)

\* the calls whose usage is added to the counters of the AgentContext:
\* _make_change, lines 482-485, and no other call site
TrackedKinds == {"propose"}

\* execute, lines 198-199: the token counters of the returned result
TokenCounters(calls) ==
    [ total_input_tokens |-> TotalTokens(calls, TrackedKinds, "input_tokens"),
      total_output_tokens |-> TotalTokens(calls, TrackedKinds, "output_tokens") ]

\* the token counters of one run that reached verification
TokenCountersCall ==
    /\ call = NoCall
    /\ \E calls \in RunCalls :
         call' = [ op |-> "tokens", calls |-> calls, counters |-> TokenCounters(calls) ]
    /\ UNCHANGED << dry_run, max_turns, enable_quick_verify, audit >>
    /\ UNCHANGED << agent_vars, fleet_vars, api_vars >>

(* --------------------------- provider retries ------------------------- *)

\* largest configured LLMConfig.max_retries explored
MaxRetriesBound == 4

RECURSIVE GenerateFrom(_, _, _, _, _)
\* generate, lines 102-114: the retry loop from the given attempt (counted
\* from 0, as range() does) on; first_ok is the first call of the API that
\* succeeds (counted from 1), delays are the sleeps made so far
GenerateFrom(attempt, max_retries, retry_delay, first_ok, delays) ==
    IF attempt >= max_retries
    THEN [ outcome |-> "runtime_error", attempts |-> attempt, delays |-> delays ]
    ELSE IF attempt + 1 = first_ok
    THEN [ outcome |-> "response", attempts |-> attempt + 1, delays |-> delays ]
    ELSE IF attempt < max_retries - 1
    THEN GenerateFrom(attempt + 1, max_retries, retry_delay, first_ok,
                      Append(delays, retry_delay * (attempt + 1)))
    ELSE [ outcome |-> "attempt_error", attempts |-> attempt + 1, delays |-> delays ]

\* AnthropicProvider.generate / OpenAICompatibleProvider.generate: the retry
\* loop around the API call
Generate(max_retries, retry_delay, first_ok) ==
    GenerateFrom(0, max_retries, retry_delay, first_ok, <<>>)

\* provider.generate(messages) called once
GenerateCall ==
    /\ call = NoCall
    /\ \E max_retries \in 0..MaxRetriesBound, retry_delay \in {1, 2},
          first_ok \in 1..(MaxRetriesBound + 1) :
         call' = [ op |-> "generate", max_retries |-> max_retries,
                   retry_delay |-> retry_delay, first_ok |-> first_ok,
                   returned |-> Generate(max_retries, retry_delay, first_ok) ]
    /\ UNCHANGED << dry_run, max_turns, enable_quick_verify, audit >>
    /\ UNCHANGED << agent_vars, fleet_vars, api_vars >>

\* one function is called on its own, outside any migration
CallInit ==
    /\ dry_run = TRUE
    /\ max_turns = 1
    /\ enable_quick_verify = TRUE
    /\ mig_pc = "start"
    /\ filtered_sites = <<>>
    /\ site_i = 1
    /\ pc = "none"
    /\ result = NewAgentResult
    /\ plan = <<>>
    /\ step_i = 1
    /\ turns_taken = 0
    /\ changes = <<>>
    /\ timer_expired = FALSE
    /\ audit = <<>>
    /\ site_results = <<>>
    /\ verifier_results = <<>>
    /\ runs_started = [s \in Sites |-> 0]
    /\ migration_result = NoMigrationResult
    /\ event_id = None
    /\ call = NoCall
    /\ jobs = NoJobs
    /\ task_pc = "none"
    /\ response = NoResponse

CallNext ==
    \/ SafetyVerifyCall
    \/ RunLlmJudgeCall
    \/ SelectSitesCall
    \/ CreatePlanCall
    \/ BothGatesCall
    \/ LinesCall
    \/ TokenCountersCall
    \/ GenerateCall

CallSpec == CallInit /\ [][CallNext]_vars

(* ------------------------- the API's job store ------------------------- *)

\* the job ids _create_job_id hands out
JobIds == {"j1"}

\* the job ids a client can ask about: a known one and an unknown one
RequestedJobIds == JobIds \cup {"j0"}

\* datetime.utcnow()
UtcNow == "utcnow"

\* run_migration, lines 305-313: the job stored for a new request
NewJob ==
    [ status |-> "pending", completed_at |-> None, result |-> NoMigrationResult,
      error |-> None ]

\* POST /migrations/run (run_migration, lines 291-331): the job is stored as
\* pending, the background task is queued, the job id is answered
RunMigration ==
    /\ task_pc = "none"
    /\ \E job_id \in JobIds \ DOMAIN jobs :
         /\ jobs' = [j \in DOMAIN jobs \cup {job_id} |->
                         IF j = job_id THEN NewJob ELSE jobs[j]]
         /\ response' = [code |-> 200, job_id |-> job_id, status |-> "pending"]
    /\ task_pc' = "queued"
    /\ UNCHANGED << dry_run, max_turns, enable_quick_verify, call, audit >>
    /\ UNCHANGED << agent_vars, fleet_vars >>

\* _run_migration_task, lines 344-345: the background task starts and marks
\* the job running
RunMigrationTaskStart ==
    /\ task_pc = "queued"
    /\ jobs' = [jobs EXCEPT !["j1"].status = "running"]
    /\ task_pc' = "running"
    /\ UNCHANGED << dry_run, max_turns, enable_quick_verify, call, audit, response >>
    /\ UNCHANGED << agent_vars, fleet_vars >>

\* _run_migration_task, lines 347-348 and 367-372: FleetManager(config_path)
\* raises (the fleet configuration cannot be read); the job is marked failed
RunMigrationTaskRaises ==
    /\ task_pc = "running"
    /\ mig_pc = "start"
    /\ jobs' = [jobs EXCEPT !["j1"].status = "failed",
                            !["j1"].completed_at = UtcNow,
                            !["j1"].error = "raised"]
    /\ task_pc' = "done"
    /\ UNCHANGED << dry_run, max_turns, enable_quick_verify, call, audit, response >>
    /\ UNCHANGED << agent_vars, fleet_vars >>

\* _run_migration_task, lines 350-354: one step of the awaited
\* manager.run_migration, which is not given the job and never reads the
\* job store
RunMigrationTaskStep ==
    /\ task_pc = "running"
    /\ Next

\* _run_migration_task, lines 356-358: run_migration has returned; the job
\* becomes completed or partial and holds the result
RunMigrationTaskDone ==
    /\ task_pc = "running"
    /\ mig_pc = "done"
    /\ jobs' = [jobs EXCEPT !["j1"].status = IF migration_result.failed_sites = 0
                                             THEN "completed" ELSE "partial",
                            !["j1"].completed_at = UtcNow,
                            !["j1"].result = migration_result]
    /\ task_pc' = "done"
    /\ UNCHANGED << dry_run, max_turns, enable_quick_verify, call, audit, response >>
    /\ UNCHANGED << agent_vars, fleet_vars >>

\* cancel_job, line 441: the statuses of a job that cannot be cancelled
NotCancellable == {"completed", "failed", "cancelled"}

\* DELETE /migrations/jobs/{job_id} (cancel_job, lines 429-451)
CancelJob ==
    /\ \E job_id \in RequestedJobIds :
         IF job_id \notin DOMAIN jobs
         THEN /\ response' = [code |-> 404, job_id |-> job_id, status |-> None]
              /\ jobs' = jobs
         ELSE IF jobs[job_id].status \in NotCancellable
         THEN /\ response' = [code |-> 400, job_id |-> job_id,
                               status |-> jobs[job_id].status]
              /\ jobs' = jobs
         ELSE /\ jobs' = [jobs EXCEPT ![job_id].status = "cancelled",
                                     ![job_id].completed_at = UtcNow]
              /\ response' = [code |-> 200, job_id |-> job_id, status |-> "cancelled"]
    /\ UNCHANGED << dry_run, max_turns, enable_quick_verify, call, audit, task_pc >>
    /\ UNCHANGED << agent_vars, fleet_vars >>

\* the API process has started: no job is stored, no migration is running;
\* the agents are configured with the smallest turn budget
JobInit == SingleTurnInit

JobNext ==
    \/ RunMigration
    \/ RunMigrationTaskStart
    \/ RunMigrationTaskRaises
    \/ RunMigrationTaskStep
    \/ RunMigrationTaskDone
    \/ CancelJob

JobSpec == JobInit /\ [][JobNext]_vars

(* ------------------------------ properties ----------------------------- *)

\* some outcome of a gate run is a failed critical check
HasCriticalFailure(results) ==
    \E i \in 1..Len(results) : ~ results[i].passed /\ results[i].critical

\* the audit events of one type written for a site
EventsOf(event_type, site) ==
    {i \in 1..Len(audit) : audit[i] = Event(event_type, site)}

\* execute has returned for the current site
Returned == pc = "returned"

\* C1: a failed critical outcome (the safety outcome) forces the aggregate to
\* false, in the agent's result (all_verifications_passed, success) and in the
\* orchestrator's site result (success), whatever the other outcomes are.
C1_CriticalFailureForcesFail ==
    /\ (Returned /\ HasCriticalFailure(result.verification_results))
           => (~ result.all_verifications_passed /\ ~ result.success)
    /\ (pc = "none" /\ site_results # <<>> /\ HasCriticalFailure(verifier_results))
           => (~ site_results[Len(site_results)].success
               /\ ~ site_results[Len(site_results)].verification_passed)

\* the safety outcome fails critically while compile and judge pass, in the
\* orchestrator's gate after it had failed in the agent's gate
C1_Witness ==
    /\ pc = "none" /\ site_results # <<>>
    /\ HasCriticalFailure(verifier_results)
    /\ verifier_results[1].passed /\ verifier_results[3].passed
    /\ EventsOf("safety_violation", site_results[Len(site_results)].site_name) # {}

\* C2: hard stop. Once the safety check of a site's run has failed (its
\* safety_violation is on the audit trail), no change request is ever emitted
\* for that site and the site's run is never started a second time.
C2_SafetyFailureIsHardStop ==
    \A s \in Sites :
        EventsOf("safety_violation", s) # {}
            => (EventsOf("car_created", s) = {} /\ runs_started[s] = 1)

\* a live migration finished after the first site's safety check had failed
C2_Witness ==
    /\ mig_pc = "done" /\ ~ dry_run
    /\ EventsOf("safety_violation", "s1") # {}
    /\ site_results[1].changes_made > 0

\* C3: the turn counter never exceeds the turn budget, during the run and in
\* the returned result.
C3_TurnsWithinBudget ==
    /\ turns_taken <= max_turns
    /\ result.turns_taken <= max_turns

\* position of a status in idle -> planning -> executing -> verifying -> end
StatusRank(st) ==
    CASE st = "idle" -> 0
      [] st = "planning" -> 1
      [] st = "executing" -> 2
      [] st = "verifying" -> 3
      [] st \in {"completed", "failed"} -> 4

\* a step of the same call of execute: no new AgentResult is created and the
\* result is not released
SameRun == runs_started' = runs_started /\ pc' # "none"

\* C4: within one call of execute the status only moves forward: every change
\* of status goes to a strictly later status (so none is entered twice) and
\* completed and failed are never left.
C4_StatusMovesForward ==
    [][ (SameRun /\ result'.status # result.status)
            => StatusRank(result'.status) > StatusRank(result.status) ]_vars

\* a run went through every phase and ended failed on its verification
C4_Witness ==
    /\ Returned /\ result.status = "failed"
    /\ result.error_message = None
    /\ result.verification_results # <<>>

\* the aggregate of the gate's deterministic checks over a change set
GateAggregate(chs, site) ==
    AllPassed(<< CompilerVerify(chs, site), SafetyVerify(chs, site) >>)

\* C5: a run that went through verifying ends completed exactly when the
\* gate's aggregate over the accumulated change set is true, and failed
\* otherwise, for every change set (the empty one too) and every platform.
C5_CompletedIffGatePassed ==
    (Returned /\ result.error_message = None)
        => /\ result.status \in {"completed", "failed"}
           /\ result.status = "completed" <=> GateAggregate(changes, CurrentSite)

\* C6: a change request is emitted (car_created) and reported
\* (change_request_id) for a site exactly when its gate passed and the
\* migration is not a dry run.
C6_ChangeRequestIffPassAndLive ==
    \A i \in 1..Len(site_results) :
        LET r == site_results[i] IN
        /\ (EventsOf("car_created", r.site_name) # {})
               <=> (r.verification_passed /\ ~ dry_run)
        /\ (r.change_request_id # None)
               <=> (r.verification_passed /\ ~ dry_run)

\* C7: when a generation call never completes, then once the per-run timeout
\* has expired the run ends failed with the timeout error: execute returns.
C7_TimeoutEndsRun ==
    (pc = "blocked" /\ timer_expired)
        ~> (Returned /\ result.status = "failed"
            /\ result.error_message = "Execution timeout exceeded")

\* C8: an exception that escapes a phase leaves a failed result with the
\* error captured (status failed, success false), execute returns, and no
\* later phase of that run runs: the only step left is the hand-over of the
\* result to the orchestrator.
C8_FaultShortCircuits ==
    [][ /\ result'.error_message # None
            => (result'.status = "failed" /\ ~ result'.success /\ pc' = "returned")
        /\ result.error_message # None
            => (pc = "returned" /\ pc' = "none") ]_vars

\* a run faulted in final verification after a change had been appended
C8_Witness ==
    /\ Returned /\ result.error_message # None
    /\ result.status = "failed"
    /\ changes # <<>>

\* C9: when a run ends failed on a loop-level fault, the changes appended
\* before the fault are in the returned result and all_passed is false.
C9_FaultKeepsChanges ==
    (Returned /\ result.error_message # None)
        => (result.changes = changes /\ ~ result.all_verifications_passed)

\* C10: a failed step does not abort the run. The step that fails hands the
\* loop on to the next step with the run still executing, and whenever the
\* loop head is left, it is for the next step (while steps and turn budget
\* remain) or, once the loop has ended, for verifying.
C10_StepFailureDoesNotAbort ==
    [][ /\ (pc = "make_change" /\ plan'[step_i].status = "failed")
            => (pc' = "executing" /\ result'.status = "executing"
                /\ step_i' = step_i + 1)
        /\ (pc = "executing" /\ pc' # "executing")
            => IF step_i > Len(plan) \/ turns_taken >= max_turns
               THEN pc' = "verifying" /\ result'.status = "verifying"
               ELSE pc' = "make_change" /\ plan'[step_i].status = "in_progress" ]_vars

\* after a failed first step the second step was attempted and the run
\* went on to verifying
C10_Witness ==
    /\ result.status = "verifying"
    /\ Len(plan) >= 2
    /\ plan[1].status = "failed"
    /\ plan[2].status = "completed"

\* C11: when the proposer's generation call fails for a step, no change is
\* appended, no turn is counted, and the step is recorded as failed with the
\* error.
C11_GenerationFailureFailsStep ==
    [][ MakeChangeNone
            => /\ changes' = changes
               /\ turns_taken' = turns_taken
               /\ plan'[step_i].status = "failed"
               /\ plan'[step_i].error # None ]_vars

\* C12: when the step loop stops on the turn budget (steps remain and
\* turns_taken >= max_turns), the run goes on to verifying with the plan
\* untouched, and in the plan the run verifies and returns every step that
\* was not started is still pending.
C12_BudgetStopLeavesPending ==
    [][ /\ (pc = "executing" /\ step_i <= Len(plan) /\ turns_taken >= max_turns)
            => (pc' = "verifying" /\ result'.status = "verifying" /\ plan' = plan)
        /\ pc' \in {"verifying", "returned"}
            => \A i \in step_i'..Len(plan') : plan'[i].status = "pending" ]_vars

\* a run stopped by the turn budget before its last step, was verified and
\* returned
C12_Witness ==
    /\ Returned /\ result.error_message = None
    /\ result.verification_results # <<>>
    /\ step_i <= Len(plan) /\ turns_taken >= max_turns
    /\ plan[step_i].status = "pending"

\* the safety check of a gate run returned a failing verdict
SafetyCheckFailed(results) ==
    \E i \in 1..Len(results) :
        results[i].kind = "safety" /\ ~ results[i].passed /\ results[i].critical

FailedSafetyIsCritical(results) ==
    \A i \in 1..Len(results) :
        (results[i].kind = "safety" /\ ~ results[i].passed) => results[i].critical

\* C14: every safety outcome with passed = false in a gate's result list
\* (the agent's and the orchestrator's) is critical, whether the safety check
\* returned a failing verdict or raised.
C14_FailedSafetyOutcomeIsCritical ==
    /\ FailedSafetyIsCritical(result.verification_results)
    /\ FailedSafetyIsCritical(verifier_results)

\* C18: every gate invocation of the orchestrator leaves exactly three
\* outcomes, of the compile, the safety and the judge check in that order,
\* whatever the earlier checks returned or raised.
C18_GateRunsAllThreeChecks ==
    /\ Len(verifier_results) \in {0, 3}
    /\ (pc = "none" /\ site_results # <<>>)
           => /\ Len(verifier_results) = 3
              /\ verifier_results[1].kind = "compile"
              /\ verifier_results[2].kind = "safety"
              /\ verifier_results[3].kind = "judge"

\* the compile check failed and the safety check failed after it, and the
\* judge still contributed its outcome
C18_Witness ==
    /\ pc = "none" /\ Len(verifier_results) = 3
    /\ ~ verifier_results[1].passed
    /\ ~ verifier_results[2].passed
    /\ verifier_results[3].kind = "judge" /\ verifier_results[3].passed
    /\ site_results[Len(site_results)].changes_made > 0

\* C15: whenever some change of the set targets a file listed in the site's
\* certified_modules, the safety check fails critically.
C15_CertifiedModuleChangeFailsSafety ==
    call.op = "safety"
        => ((\E i \in 1..Len(call.changes) :
                 call.changes[i].file_path \in CertifiedModulesOf(call.site))
            => (~ call.outcome.passed /\ call.outcome.critical))

\* the change touches keyword code: a safety keyword is in its before or in
\* its after text
TouchesSafetyKeyword(change) ==
    \/ \E j \in 1..Len(change.old_code) : change.old_code[j] \in estop_patterns
    \/ \E j \in 1..Len(change.new_code) : change.new_code[j] \in estop_patterns

\* C16: the emergency-stop sub-check fails exactly when some change touches
\* keyword code (before or after text) and is not a comment-only change; so
\* a change set of comment-only changes passes it.
C16_EStopCheckFailsIffKeywordTouched ==
    call.op = "safety"
        => (~ call.details[1]
            <=> \E i \in 1..Len(call.changes) :
                    /\ TouchesSafetyKeyword(call.changes[i])
                    /\ ~ IsCommentOnlyChange(call.changes[i]))

\* the verdict line of the reply says approved
VerdictApproved(content) ==
    \E i \in 1..Len(content) :
        /\ Len(content[i]) >= 2
        /\ Upper(content[i][1]) = "VERDICT:"
        /\ Upper(content[i][2]) = "APPROVED"

\* C17: on a non-empty change set with the judge enabled, the judge passes
\* exactly when the generation call failed, or the verdict is approved and
\* the confidence is at least the threshold.
C17_JudgePassesIffApprovedOrError ==
    (call.op = "judge" /\ call.changes # <<>> /\ call.enabled)
        => (call.outcome.passed
            <=> \/ call.errored
                \/ /\ VerdictApproved(call.content)
                   /\ JudgeConfidence(call.content) >= confidence_threshold)

\* the names of the sites of a list
NamesOf(sites) == {sites[i].name : i \in 1..Len(sites)}

\* the include list of a selection: the explicit target sites of the call
\* when given, else the include_sites of the filter
IncludeList(c) ==
    IF c.target_sites # {} THEN c.target_sites ELSE c.filters.include_sites

RatingRank(rating) ==
    CHOOSE k \in 1..5 : << "None", "SIL-1", "SIL-2", "SIL-3", "SIL-4" >>[k] = rating

\* the site satisfies every criterion the filter specifies
MeetsCriteria(site, f) ==
    /\ site.name \notin f.exclude_sites
    /\ f.plc_type # "" => site.plc_type = f.plc_type
    /\ f.firmware_version # <<>> => StartsWith(site.firmware_version, f.firmware_version)
    /\ f.safety_rating # "" => RatingRank(site.safety_rating) >= RatingRank(f.safety_rating)
    /\ f.location # <<>> => Contains(LowerText(site.location), LowerText(f.location))
    /\ f.tags \subseteq site.tags

NamesOfSelection(selected) == { selected[i] : i \in 1..Len(selected) }

\* run_migration has returned its MigrationResult
MigrationReturned == mig_pc = "done"

\* C21: every MigrationResult returned by run_migration (normal completion,
\* empty filter match, missing definition) satisfies
\* successful_sites + failed_sites + skipped_sites = total_sites.
C21_CountsSumToTotal ==
    MigrationReturned
        => migration_result.successful_sites + migration_result.failed_sites
               + migration_result.skipped_sites = migration_result.total_sites

\* the fleet and the include list of the scenario: one site of five is named
ScenarioFleet == << "Plant-01", "Plant-02", "Plant-03", "Plant-04", "Plant-05" >>

\* the site results the scenario's only selected site can have
ScenarioResults ==
    { << NewSiteMigrationResult("Plant-02", all_passed, dry, <<>>) >> :
        all_passed \in BOOLEAN, dry \in BOOLEAN }

\* C22: for a migration whose definition is found, total_sites is the number
\* of selected sites and skipped_sites is the fleet size minus the number of
\* selected sites; the failed sites are selected sites, a site that was
\* filtered out is never among them; one site selected out of a fleet of five
\* gives total_sites = 1 and skipped_sites = 4.
C22_TotalAndSkipped ==
    [][ /\ (NoSitesSelected \/ MigrationComplete)
            => /\ migration_result'.total_sites = Len(filtered_sites')
               /\ migration_result'.skipped_sites = Len(Fleet) - Len(filtered_sites')
               /\ migration_result'.failed_sites =
                      Cardinality({ i \in 1..Len(site_results') :
                                      /\ ~ site_results'[i].success
                                      /\ site_results'[i].site_name
                                             \in NamesOfSelection(filtered_sites') })
        /\ \A rs \in ScenarioResults :
              LET r == NewMigrationResult(ScenarioFleet, << "Plant-02" >>, rs)
              IN  r.total_sites = 1 /\ r.skipped_sites = 4 ]_vars

\* a migration over one of the two sites of the fleet returned: one site in
\* total, one skipped
C22_Witness ==
    /\ MigrationReturned
    /\ Len(filtered_sites) = 1
    /\ migration_result.total_sites = 1
    /\ migration_result.skipped_sites = 1
    /\ Len(migration_result.site_results) = 1

\* C23: when the migration definition is missing or no site is selected,
\* run_migration returns a MigrationResult with total_sites = 0 and no site
\* results; no agent run was started and the audit sink holds no event (no
\* migration_started, no per-site event).
C23_EarlyReturnIsSilent ==
    [][ (MigrationNotFound \/ NoSitesSelected)
            => /\ migration_result'.total_sites = 0
               /\ migration_result'.site_results = <<>>
               /\ \A s \in Sites : runs_started'[s] = 0
               /\ pc' = "none"
               /\ audit' = <<>>
               /\ MigrationReturned' ]_vars

\* run_migration returned on an empty selection: every site of the fleet is
\* counted as skipped, nothing was logged
C23_Witness ==
    /\ MigrationReturned
    /\ migration_result.status = "completed"
    /\ migration_result.total_sites = 0
    /\ migration_result.skipped_sites = Len(Fleet)
    /\ audit = <<>>

(* ------------------------- loops of a migration ------------------------ *)

\* the least value the settings accept for max_concurrent_sites (ge=1)
max_concurrent_sites_min == 1

RECURSIVE RunsStarted(_)
\* how many calls of agent.execute were made for the sites of a list
RunsStarted(sites) ==
    IF sites = <<>> THEN 0
    ELSE runs_started[Head(sites)] + RunsStarted(Tail(sites))

\* the loops that were started and whose site has not been reported yet
ActiveLoops == RunsStarted(Fleet) - Len(site_results)

\* C24: during a migration at most max_concurrent_sites loops are active at
\* any time (at most one, whatever the setting), and loops share no run
\* state: a loop starts from a fresh result, plan, change list and turn
\* counter, and no step of a loop touches the result reported for another
\* site.
C24_LoopsBoundedAndIsolated ==
    [][ /\ ActiveLoops' <= max_concurrent_sites_min
        /\ StartSite
              => /\ result' = NewAgentResult /\ changes' = <<>>
                 /\ turns_taken' = 0 /\ plan' = <<>>
        /\ \A i \in 1..Len(site_results) :
              /\ i <= Len(site_results')
              /\ site_results'[i] = site_results[i] ]_vars

\* the second site's loop is making changes after the first site's loop made
\* changes and was reported
C24_Witness ==
    /\ Len(site_results) = 1 /\ site_results[1].changes_made > 0
    /\ pc = "executing" /\ turns_taken > 0 /\ changes # <<>>
    /\ ActiveLoops = 1

(* ------------------------------- planner ------------------------------- *)

\* C25: if the planner's generation call raises or returns empty content,
\* the planner returns a plan all the same, and the plan has exactly one
\* step, with ordinal 1 and action "review".
C25_FailedGenerationGivesDefaultPlan ==
    (call.op = "plan" /\ (call.raised \/ IsEmptyContent(call.content)))
        => /\ Len(call.steps) = 1
           /\ call.steps[1].step_number = 1
           /\ call.steps[1].action = <<"review">>

\* the generation call returned the empty string and the default plan came
\* back
C25_Witness ==
    /\ call.op = "plan" /\ ~ call.raised /\ IsEmptyContent(call.content)
    /\ call.files = <<"main.st">>
    /\ Len(call.steps) = 1
    /\ call.steps[1].target_file = Target(<<"main.st">>)

\* the lines of an output that are not blank
NonBlankLines(content) == { i \in 1..Len(content) : ~ IsBlank(content[i]) }

\* C26: when the planner parses non-empty output, every non-blank line is
\* kept as a step (a line not in the requested format as a description-only
\* step), none is dropped: an output within the step limit gives as many steps
\* as it has non-blank lines, and at least one step whenever it has a
\* non-blank line.
C26_NonBlankLinesAreKept ==
    (call.op = "plan" /\ ~ call.raised /\ ~ IsEmptyContent(call.content))
        => /\ Cardinality(NonBlankLines(call.content)) <= plan_step_limit
               => Len(call.steps) = Cardinality(NonBlankLines(call.content))
           /\ NonBlankLines(call.content) # {} => Len(call.steps) >= 1

\* C27: every plan returned by the planner has N <= 10 steps whose ordinals
\* are 1..N in order; an output describing more than 10 steps is cut to its
\* first 10 steps, not rejected.
C27_OrdinalsAndLimit ==
    call.op = "plan"
        => /\ Len(call.steps) <= plan_step_limit
           /\ \A i \in 1..Len(call.steps) : call.steps[i].step_number = i
           /\ (~ call.raised /\ ~ IsEmptyContent(call.content))
                  => call.steps = SubSeq(ParseLines(call.content, <<>>), 1,
                                         Len(call.steps))
           /\ (~ call.raised /\ Len(ParseLines(call.content, <<>>)) > plan_step_limit)
                  => Len(call.steps) = plan_step_limit

\* an output with more numbered lines than the limit was cut to ten steps
C27_Witness ==
    /\ call.op = "plan" /\ ~ call.raised
    /\ Len(call.content) > plan_step_limit
    /\ Len(call.steps) = plan_step_limit
    /\ call.steps[plan_step_limit].step_number = plan_step_limit

(* ------------------------------ both gates ----------------------------- *)

\* C28: the deterministic checks give the same passed booleans when run
\* twice on the same change set and site: the compile and safety outcomes of
\* the agent's gate and of the orchestrator's gate agree, so that the two
\* gates can differ in the judge outcome only (the agent's gate passes
\* exactly when the orchestrator's compile and safety checks pass).
C28_GatesAgreeOnDeterministicChecks ==
    call.op = "gates"
        => /\ \A k \in 1..Len(call.agent) :
                  call.agent[k].passed = call.orchestrator[k].passed
           /\ AllPassed(call.agent)
                  <=> (call.orchestrator[1].passed /\ call.orchestrator[2].passed)

(* ------------------------------ line counts ---------------------------- *)

\* C29: for every change lines_added >= 0 and lines_removed >= 0, at most
\* one of the two is non-zero, and both are 0 when the before text equals
\* the after text.
C29_LineCounts ==
    call.op = "lines"
        => /\ call.lines_added >= 0
           /\ call.lines_removed >= 0
           /\ call.lines_added = 0 \/ call.lines_removed = 0
           /\ call.old_code = call.new_code
                  => (call.lines_added = 0 /\ call.lines_removed = 0)

\* a one-line text replaced by a three-line text: two lines added, none
\* removed
C29_Witness ==
    /\ call.op = "lines"
    /\ call.old_code = <<"a", "\n">>
    /\ call.new_code = <<"a", "\n", "b", "\n", "c">>
    /\ call.lines_added = 2 /\ call.lines_removed = 0

(* ------------------------------ fix attempt ---------------------------- *)

\* the fix generation call of the current step has answered
FixAnswered == pc = "fix" /\ turns_taken' = turns_taken + 1

\* C30: for every plan step at most one fix attempt is made, exactly when
\* quick verification is enabled and rejects the candidate; the fix result
\* replaces the candidate and is not quick-verified again: whatever the fix
\* is, the step is closed and the loop moves to the next step.
C30_OneFixAttemptPerStep ==
    [][ /\ MakeChangeOk
            => (pc' = "fix"
                   <=> (enable_quick_verify /\ ~ QuickVerify(changes'[Len(changes')])))
        /\ (pc' = "fix" /\ pc # "fix")
            => (pc = "make_change" /\ step_i' = step_i)
        /\ FixAnswered
            => /\ pc' = "executing" /\ step_i' = step_i + 1
               /\ Len(changes') = Len(changes)
               /\ \A i \in 1..(Len(changes) - 1) : changes'[i] = changes[i]
               /\ changes'[Len(changes)].new_code \in CodeTexts
        /\ (pc = "fix" /\ pc' # "fix" /\ ~ FixAnswered)
            => /\ changes' = changes
               /\ pc' = "blocked" \/ step_i' = step_i + 1 ]_vars

\* the candidate of the first step was rejected and fixed once; the fix would
\* be rejected too, and the step is completed with it
C30_Witness ==
    /\ enable_quick_verify
    /\ pc = "executing" /\ step_i = 2
    /\ Len(changes) = 1 /\ turns_taken = 2
    /\ ~ QuickVerify(changes[1])
    /\ plan[1].status = "completed"

(* ------------------------------ plan steps ----------------------------- *)

\* the moves a PlanStep's status makes in _execute_plan
StepStatusMoves ==
    { <<"pending", "in_progress">>, <<"in_progress", "completed">>,
      <<"in_progress", "failed">> }

\* the steps of the plan that are in progress
StepsInProgress == { i \in 1..Len(plan) : plan[i].status = "in_progress" }

\* C31: every PlanStep starts in pending and its status only moves
\* pending -> in_progress -> completed or failed; a completed or failed step
\* never changes again; at most one step is in progress at a time, none when
\* execute returns; no step is added to or removed from the plan (or
\* retargeted) once the planner has returned it.
C31_PlanStepLifecycle ==
    [][ /\ CreatePlan => \A i \in 1..Len(plan') : plan'[i].status = "pending"
        /\ (SameRun /\ ~ CreatePlan)
            => /\ Len(plan') = Len(plan)
               /\ \A i \in 1..Len(plan) :
                     /\ plan'[i].target_file = plan[i].target_file
                     /\ plan'[i].status # plan[i].status
                           => << plan[i].status, plan'[i].status >> \in StepStatusMoves
        /\ Cardinality(StepsInProgress') <= 1
        /\ Returned' => StepsInProgress' = {} ]_vars

\* execute returned with its first step completed and its second step failed
C31_Witness ==
    /\ Returned /\ result.status = "completed"
    /\ Len(plan) = 2
    /\ plan[1].status = "completed" /\ plan[2].status = "failed"
    /\ StepsInProgress = {}

(* --------------------------------- turns ------------------------------- *)

\* the run is in its step loop (_execute_plan)
InStepLoop == pc \in {"executing", "make_change", "fix"}

\* C32: a turn is one accepted change: in every state of the step loop, and
\* in the result of a run that reached verification and returned,
\* turns_taken equals the number of changes appended during the run.
C32_TurnsEqualChanges ==
    /\ InStepLoop => turns_taken = Len(changes)
    /\ (Returned /\ result.error_message = None /\ StatusRank(result.status) = 4)
           => result.turns_taken = Len(result.changes)

(* -------------------------- changes of a run --------------------------- *)

\* the steps of the run's plan that the step loop has closed
ClosedSteps == { i \in 1..Len(plan) : plan[i].status \in {"completed", "failed"} }

\* C33: every change belongs to exactly one run: the changes reported and
\* verified for a run are the changes proposed during that run, at most one
\* for each step the run closed, also when execute is called a second time on
\* the same agent; a call of execute starts without any change of an earlier
\* run.
C33_ChangesBelongToOneRun ==
    [][ /\ Execute => changes' = <<>>
        /\ FinalVerification
            => /\ result'.changes = changes
               /\ Len(result'.changes) <= Cardinality(ClosedSteps) ]_vars

(* ----------------------------- token counters -------------------------- *)

\* every kind of generation call a run makes
AllKinds == {"discover", "plan", "propose", "fix"}

\* C34: the token counters of a run equal the sums of the usage reported by
\* all generation calls made during the run: file discovery, planning, every
\* change proposal and every fix attempt.
C34_TokenCountersSumAllCalls ==
    call.op = "tokens"
        => /\ call.counters.total_input_tokens
                  = TotalTokens(call.calls, AllKinds, "input_tokens")
           /\ call.counters.total_output_tokens
                  = TotalTokens(call.calls, AllKinds, "output_tokens")

(* ---------------------------- provider retries ------------------------- *)

\* C35: a provider generate call makes at least one and at most max_retries
\* attempts, for every max_retries >= 0; it returns the first successful
\* response; between consecutive failed attempts it waits, each delay twice
\* the one before (exponential growth); after the last failed attempt it
\* raises that attempt's error.
C35_BoundedExponentialRetries ==
    call.op = "generate"
        => LET r == call.returned IN
           /\ r.attempts >= 1
           /\ r.attempts <= call.max_retries
           /\ call.first_ok <= call.max_retries
                  => (r.outcome = "response" /\ r.attempts = call.first_ok)
           /\ call.first_ok > call.max_retries => r.outcome = "attempt_error"
           /\ Len(r.delays) = r.attempts - 1
           /\ \A i \in 2..Len(r.delays) : r.delays[i] = 2 * r.delays[i - 1]

(* ---------------------- site results and the run ----------------------- *)

\* the site result _run_agent_on_site reports in this step
ReportedSiteResult == site_results'[Len(site_results')]

\* C36: a site is reported successful only if its run ended in status
\* completed: a run that ended in failed (for example through a loop-level
\* exception after changes were appended) is never reported as a successful
\* site and never gets a change request.
C36_SuccessOnlyIfRunCompleted ==
    [][ (SiteGate /\ result.status # "completed")
            => /\ ~ ReportedSiteResult.success
               /\ ReportedSiteResult.change_request_id = None
               /\ audit'[Len(audit')] # Event("car_created", CurrentSite) ]_vars

\* C37: every change request, every site counted as successful and every run
\* reported as completed has at least one accepted change: a run without
\* any change (every proposal failed, or an empty plan) is not completed or
\* successful and yields no change request.
C37_SuccessNeedsAChange ==
    [][ /\ (FinalVerification /\ changes = <<>>)
            => (result'.status # "completed" /\ ~ result'.success)
        /\ (SiteGate /\ result.status = "completed" /\ result.changes = <<>>)
            => /\ ~ ReportedSiteResult.success
               /\ ReportedSiteResult.change_request_id = None
               /\ audit'[Len(audit')] # Event("car_created", CurrentSite) ]_vars

(* ------------------------------ job store ------------------------------ *)

\* the job of the request is stored and cancelled
JobCancelled == "j1" \in DOMAIN jobs /\ jobs["j1"].status = "cancelled"

\* C38: cancelled is absorbing in the job store: once a job is cancelled its
\* status stays cancelled in every later step, whatever the background task
\* does; no site run is started while the job is cancelled; and cancel_job
\* on a job that is completed, failed or cancelled is rejected and leaves the
\* job store as it was.
C38_CancelledIsAbsorbing ==
    [][ /\ JobCancelled => (jobs'["j1"].status = "cancelled" /\ ~ StartSite)
        /\ (CancelJob /\ "j1" \in DOMAIN jobs /\ jobs["j1"].status \in NotCancellable
               /\ response'.job_id = "j1")
            => (response'.code = 400 /\ jobs' = jobs) ]_vars

(* ------------------------------ exit code ------------------------------ *)

\* async_main, lines 753-772: the exit code of the fleet-manager CLI, from
\* whether FleetManager(...) or run_migration raised and, if not, from the
\* MigrationResult returned: only failed_sites is read
AsyncMainExit(raised, r) ==
    IF raised THEN 1
    ELSE IF r.failed_sites > 0 THEN 1
    ELSE 0

\* C39: the CLI exits with code 0 only if the migration ran without failure:
\* when run_migration raises, or returns a MigrationResult with status failed
\* or with failed_sites > 0, the exit code is not 0.
C39_ExitZeroOnlyWithoutFailure ==
    MigrationReturned =>
        /\ AsyncMainExit(TRUE, migration_result) # 0
        /\ (migration_result.status = "failed" \/ migration_result.failed_sites > 0)
               => AsyncMainExit(FALSE, migration_result) # 0

(* ------------------- the two events of a migration --------------------- *)

\* the positions of the audit sink that hold an event of the given type
EventsOfType(event_type) ==
    {i \in 1..Len(audit) : audit[i].event_type = event_type}

\* some site's run has begun
SomeRunBegun == \E s \in Sites : runs_started[s] > 0

\* the site loop has ended: the last selected site's run has returned and its
\* result is collected
LastSiteEnded ==
    /\ mig_pc \in {"sites", "done"}
    /\ filtered_sites # <<>>
    /\ site_i > Len(filtered_sites)
    /\ pc = "none"

\* what the audit sink and the results hold at every point of a migration
\* over at least one selected site
MigrationEventsInOrder ==
    /\ Cardinality(EventsOfType("migration_started")) <= 1
    /\ Cardinality(EventsOfType("migration_completed")) <= 1
    /\ (SomeRunBegun \/ mig_pc = "sites")
           => /\ Cardinality(EventsOfType("migration_started")) = 1
              /\ audit[1].event_type = "migration_started"
    /\ \A i \in EventsOfType("migration_completed") :
           /\ LastSiteEnded /\ MigrationReturned
           /\ i = Len(audit)
           /\ audit[i].event_id = audit[1].event_id
           /\ audit[i].success_count = migration_result.successful_sites
           /\ audit[i].failure_count = migration_result.failed_sites
    /\ (MigrationReturned /\ filtered_sites # <<>>)
           => /\ Cardinality(EventsOfType("migration_completed")) = 1
              /\ Len(migration_result.site_results) = Len(filtered_sites)
              /\ \A i \in 1..Len(filtered_sites) :
                     migration_result.site_results[i].site_name = filtered_sites[i]

====
